---- MODULE Spec2Model ----
(***************************************************************************)
(* A model of the comparative-evaluation pipeline of MadR7/scorer:         *)
(*   - the bounded-concurrency batch dispatch of run_inference.py,         *)
(*     burn_subtitles.py and visualize_steps.py (ThreadPoolExecutor,       *)
(*     as_completed),                                                      *)
(*   - the blind colour assignment of visualize_steps.py and               *)
(*     generate_color_mapping.py,                                          *)
(*   - the per-rater sampler of scoring_app.py (get_videos_from_gcs),      *)
(*   - the score ledger of scoring_app.py (load_scores_from_gcs,           *)
(*     save_score_to_gcs) and the Submit handlers that write to it,        *)
(*   - the aggregation scripts visualize_results.py and analyze_scores.py, *)
(*   - the upload of a batch by upload_inference_to_gcs.py.                *)
(*                                                                         *)
(* Each part has its own specification over the one set of variables; the  *)
(* variables a specification does not use keep their initial value.        *)
(***************************************************************************)
EXTENDS Integers, Sequences, FiniteSets, TLC

VARIABLES
    \* ---- batch dispatch (per-job model) ----
    script,        \* which entry point runs the batch
    tasks,         \* number of jobs of the batch (tasks / subtitle_files / valid_videos)
    submitted,     \* how many jobs main has handed to executor.submit so far
    work_queue,    \* the executor's FIFO queue of submitted, not yet started jobs
    num_threads,   \* worker threads the executor has started
    jobPc,         \* per job: where the job's closure is
    output,        \* per job: what is in the job's output slot (output_path)
    response,      \* per job of run_inference: what the model call answered
    results,       \* main's list `results`, in order of collection
    mainPc,        \* where main() is
    \* ---- batch dispatch (counting model, any number of jobs) ----
    queued,        \* number of jobs in the executor's queue
    running,       \* number of jobs a worker thread is executing
    finished,      \* number of jobs whose closure has ended
    \* ---- blind assignment of one batch (run directory) ----
    json_files,    \* the <<video, model>> pairs with a file <video>_<model>.json
    mapping_exists,\* whether the batch's color_mapping.json exists
    color_mapping, \* its content: video -> (model -> colour)
    lastRun,       \* the generator that ran last on the batch, and how it ended
    \* ---- scoring app: the process and one rater session at a time ----
    rngState,      \* the state of the process-wide generator of module random
    welcome_seen,  \* st.session_state.welcome_seen
    selected_run,  \* st.session_state.selected_run ("none" for None)
    rater_id,      \* st.session_state.rater_id: the number NNNN of "rater_NNNN", 0 for ""
    videos,        \* st.session_state.videos
    current_idx,   \* st.session_state.current_idx
    lastCall,      \* the latest call of get_videos_from_gcs: arguments and result
    prevCall,      \* an earlier call of get_videos_from_gcs, kept for comparison
    \* ---- scoring app: the score ledger (scores/scores.csv) ----
    ledger_exists, \* whether the object scores/scores.csv exists
    ledger,        \* its rows, in file order
    ledger_columns,\* its header: the column names, in file order
    lastSubmit     \* the locals of "Submit & Next" when the latest rerun ran it:
                   \* the choice, the two rows handed to save_score_to_gcs, and
                   \* the ledger's rows before the first save and after each
                   \* save that ended
    ,
    \* ---- score ledger: concurrent calls of save_score_to_gcs ----
    writer,        \* per writer: where its call is, and the call's locals
    calls,         \* number of calls of save_score_to_gcs begun so far
    acked,         \* the calls that returned without error: row and read outcome
    lastStore,     \* the latest upload: who, what its read saw and returned,
                   \* its row, and the table and header it uploaded
    \* ---- aggregation: visualize_results.py and analyze_scores.py ----
    scores_file,   \* the local scores.csv the scripts read: its schema and rows
    judgments,     \* how scores_file was built: the kind of each judgment in it
    report,        \* what the latest run of an aggregation script did
    \* ---- scoring app: the number inputs of detailed mode ----
    deductions1,   \* the dict deductions1: rubric key -> points, <<>> when not shown
    deductions2,   \* the dict deductions2
    \* ---- the bucket: inference_runs/<run>/ ----
    gcs_run        \* the blobs of the uploaded run: the <<video, model>> pairs
                   \* with a blob json/<video>_<model>.json, and the blob
                   \* json/color_mapping.json (whether it exists, its content)

dvars == <<script, tasks, submitted, work_queue, num_threads, jobPc, output, response,
           results, mainPc>>
pvars == <<queued, running, finished>>
bvars == <<json_files, mapping_exists, color_mapping, lastRun>>
svars == <<rngState, welcome_seen, selected_run, rater_id, videos, current_idx,
           lastCall, prevCall>>
lvars == <<ledger_exists, ledger, ledger_columns>>
avars == <<ledger_exists, ledger, ledger_columns, lastSubmit>>
wvars == <<writer, calls, acked, lastStore>>
gvars == <<scores_file, judgments, report>>
kvars == <<deductions1, deductions2>>
uvars == <<gcs_run>>
vars  == <<dvars, pvars, bvars, svars, avars, wvars, gvars, kvars, uvars>>

\* What the actions of one part leave unchanged in the other parts.
restD == <<pvars, bvars, svars, avars, wvars, gvars, kvars, uvars>>
restP == <<bvars, svars, avars, wvars, gvars, kvars, uvars>>
restB == <<dvars, pvars, svars, avars, wvars, gvars, kvars, uvars>>
restS == <<dvars, pvars, bvars, wvars, gvars, kvars, uvars>>
restL == <<dvars, pvars, bvars, svars, lastSubmit, gvars, kvars, uvars>>
restG == <<dvars, pvars, bvars, svars, avars, wvars, kvars, uvars>>

-----------------------------------------------------------------------------
(* Bounds of the model *)

\* Largest number of jobs of a batch in the per-job model.
MaxJobs == 2
\* In the counting model a batch holds up to max_workers + MaxOver jobs.
MaxOver == 2
\* Number of videos of the batch whose blind assignment is generated.
NumVideos == 2
\* Number of items (videos with two model outputs) of the run the app reads.
PoolSize == 4
\* The generator of module random is modelled with RngMod states.
RngMod == 16
\* Start is clicked at a millisecond time in 0..MaxTime.
MaxTime == 3
\* random.randint(1000, 9999) is modelled with RaterSpan values from 1000 on.
RaterSpan == 2
\* Submit is followed while the ledger holds at most MaxRows rows.
MaxRows == 2
\* Number of calls of save_score_to_gcs the concurrent writers begin.
MaxSaves == 2
\* Number of judgments in the scores file the aggregation scripts read.
MaxJudgments == 10

-----------------------------------------------------------------------------
(* Batch dispatch: ThreadPoolExecutor + as_completed *)

Scripts == {"run_inference", "burn_subtitles", "visualize_steps"}

\* ThreadPoolExecutor(max_workers=20) in run_inference, (max_workers=4) in the
\* two rendering scripts.
InferenceWorkers == 20
RenderWorkers == 4

max_workers(s) == IF s = "run_inference" THEN InferenceWorkers ELSE RenderWorkers

\* The steps of one job's closure, in order; each can raise.
\*   run_inference.process_video_with_model: the model call, the dump of the
\*     result to output_path, then the count of the result's segments.
\*   burn_subtitles.process_single_video: download, ffmpeg, unlink.
\*   visualize_steps.process_video: load the two JSON files, download, ffmpeg,
\*     unlink.
JobSteps(s) ==
    CASE s = "run_inference"   -> <<"infer", "persist", "count">>
      [] s = "burn_subtitles"  -> <<"download", "burn", "unlink">>
      [] s = "visualize_steps" -> <<"load_json", "download", "render", "unlink">>

StepNames == {"infer", "persist", "count", "download", "burn", "unlink", "load_json",
              "render"}

\* A job's closure has ended: it returned its success tuple, returned its
\* failure tuple (error captured), or an exception left the closure.
Ended == {"succeeded", "failed", "raised"}

Jobs == 1..tasks

IsRunning(j) == jobPc[j] \in StepNames \cup {"handler"}

NumRunning == Cardinality({j \in Jobs : IsRunning(j)})

\* A pool that starts a thread for every submit, whatever max_workers is.
MaySpawnUnbounded(n, s) == TRUE

\* ThreadPoolExecutor._adjust_thread_count: a new worker thread is started on
\* submit only while fewer than max_workers exist.
MaySpawn(n, s) == n < max_workers(s)

\* The except handler of process_video_with_model writes {"error": ...} to
\* output_path again (lines 333-335); that write is outside any try and can
\* raise.  The handlers of the two rendering scripts only print and return.
HandlerCanRaise(s) == s = "run_inference"

\* A collection loop that stops one future short.
AllCollectedEarly(res, n) == Len(res) >= n - 1

\* as_completed has yielded every future: the for loop ends.
AllCollected(res, n) == Len(res) = n

Collected == {results[i][1] : i \in 1..Len(results)}

\* The parts of the state a specification does not use, at rest.
IdleDispatch ==
    /\ script = "none"
    /\ tasks = 0
    /\ submitted = 0
    /\ work_queue = <<>>
    /\ num_threads = 0
    /\ jobPc = <<>>
    /\ output = <<>>
    /\ response = <<>>
    /\ results = <<>>
    /\ mainPc = "none"

IdlePool == /\ queued = 0 /\ running = 0 /\ finished = 0

IdleBlind ==
    /\ json_files = {}
    /\ mapping_exists = FALSE
    /\ color_mapping = <<>>
    /\ lastRun = "none"

NoCall == [rater |-> 0, pool |-> <<>>, entry |-> 0, out |-> <<>>]

IdleSession ==
    /\ rngState = 0
    /\ welcome_seen = FALSE
    /\ selected_run = "none"
    /\ rater_id = 0
    /\ videos = <<>>
    /\ current_idx = 0
    /\ lastCall = NoCall
    /\ prevCall = NoCall

NoSubmit == [choice |-> "none", rows |-> <<>>, tables |-> <<>>]

IdleLedger ==
    /\ ledger_exists = FALSE
    /\ ledger = <<>>
    /\ ledger_columns = <<>>
    /\ lastSubmit = NoSubmit

Writers == {"w1", "w2"}

IdleCall == [pc |-> "idle", row |-> <<>>, existed |-> FALSE, readOk |-> TRUE,
             loaded |-> <<>>, columns |-> <<>>, new_df |-> <<>>]

NoStore == [writer |-> "none", row |-> <<>>, existed |-> FALSE, readOk |-> TRUE,
            loaded |-> <<>>, loaded_columns |-> <<>>, table |-> <<>>,
            columns |-> <<>>]

IdleWriters ==
    /\ writer = [w \in Writers |-> IdleCall]
    /\ calls = 0
    /\ acked = <<>>
    /\ lastStore = NoStore

NoReport ==
    [by |-> "none", outcome |-> "none", total |-> 0, winsA |-> 0, winsB |-> 0,
     ties |-> 0, binom |-> <<>>, sections |-> {}, stat_rows |-> 0,
     stat_modes |-> {}, zero_division |-> FALSE, empty_mean |-> FALSE]

IdleAggregate ==
    /\ scores_file = [columns |-> "ledger", rows |-> <<>>]
    /\ judgments = <<>>
    /\ report = NoReport

NoRun == [json |-> {}, color_mapping |-> [exists |-> FALSE, content |-> <<>>]]

IdleWidgets == /\ deductions1 = <<>> /\ deductions2 = <<>>

IdleBucket == gcs_run = NoRun

InitDispatch ==
    /\ IdleWidgets
    /\ IdleBucket
    /\ script \in Scripts
    /\ tasks \in 0..MaxJobs
    /\ submitted = 0
    /\ work_queue = <<>>
    /\ num_threads = 0
    /\ jobPc = [j \in 1..tasks |-> "unsubmitted"]
    /\ output = [j \in 1..tasks |-> "absent"]
    /\ response = [j \in 1..tasks |-> "none"]
    /\ results = <<>>
    /\ mainPc = "start"
    /\ IdlePool
    /\ IdleBlind
    /\ IdleSession
    /\ IdleLedger
    /\ IdleWriters
    /\ IdleAggregate

\* How main ends when there is no job: run_inference prints "ERROR: No videos
\* found!" and calls sys.exit(1) (266-268); burn_subtitles and visualize_steps
\* print an ERROR line and return (198-201, 259-261).
ZeroJobsOutcome(s) == IF s = "run_inference" THEN "error_exit_1" ELSE "error_returned"

\* main() up to the with block: the zero-job check (run_inference 266-268,
\* burn_subtitles 198-201, visualize_steps 259-261).
Begin ==
    /\ mainPc = "start"
    /\ mainPc' = IF tasks = 0 THEN ZeroJobsOutcome(script) ELSE "submit"
    /\ UNCHANGED <<script, tasks, submitted, work_queue, num_threads, jobPc,
                   output, results, response, restD>>

\* executor.submit(...) for the next task, in task order.
Submit ==
    /\ mainPc = "submit"
    /\ submitted < tasks
    /\ LET j == submitted + 1 IN
        /\ submitted' = j
        /\ work_queue' = Append(work_queue, j)
        /\ jobPc' = [jobPc EXCEPT ![j] = "queued"]
        /\ num_threads' = IF num_threads - NumRunning <= 0 /\ MaySpawn(num_threads, script)
                          THEN num_threads + 1 ELSE num_threads
        /\ mainPc' = IF j = tasks THEN "collect" ELSE "submit"
    /\ UNCHANGED <<script, tasks, output, results, response, restD>>

\* An idle worker thread takes the head of the queue and starts the closure.
WorkerTake ==
    /\ work_queue # <<>>
    /\ NumRunning < num_threads
    /\ LET j == Head(work_queue) IN
        /\ work_queue' = Tail(work_queue)
        /\ jobPc' = [jobPc EXCEPT ![j] = JobSteps(script)[1]]
    /\ UNCHANGED <<script, tasks, submitted, num_threads, output, results, mainPc, response, restD>>

StepIndex(j) == CHOOSE k \in 1..Len(JobSteps(script)) : JobSteps(script)[k] = jobPc[j]

\* What a step that completes leaves in the job's output slot.
OutputAfter(step, old) == IF step = "persist" THEN "result" ELSE old

\* What response.text of the model call holds (run_inference 140-162): a
\* JSON object with a cutSegments list (or, with a numbered-list prompt, any
\* text), text that json.loads rejects, a JSON object without cutSegments, or
\* JSON that is not an object (an array, a string, a number).
Responses == {"segments", "not_json", "no_segments", "not_object"}

\* A run_inference whose fallback for text that is not JSON is an empty dict.
run_inference_untagged(r) ==
    CASE r = "segments"    -> [object |-> TRUE,  cutSegments |-> "list",    error |-> FALSE]
      [] r = "not_json"    -> [object |-> TRUE,  cutSegments |-> "missing", error |-> FALSE]
      [] r = "no_segments" -> [object |-> TRUE,  cutSegments |-> "missing", error |-> FALSE]
      [] OTHER             -> [object |-> FALSE, cutSegments |-> "missing", error |-> FALSE]

\* run_inference(): what the call returns for each response.  json.loads'
\* value is returned as it is (158-160); on JSONDecodeError the fallback
\* {"cutSegments": [], "error": "Failed to parse JSON", ...} is returned
\* (161-170).  object: the value is a dict; cutSegments: the key is missing,
\* holds [] or holds a non-empty list; error: the value has an "error" key.
run_inference(r) ==
    CASE r = "segments"    -> [object |-> TRUE,  cutSegments |-> "list",    error |-> FALSE]
      [] r = "not_json"    -> [object |-> TRUE,  cutSegments |-> "empty",   error |-> TRUE]
      [] r = "no_segments" -> [object |-> TRUE,  cutSegments |-> "missing", error |-> FALSE]
      [] OTHER             -> [object |-> FALSE, cutSegments |-> "missing", error |-> FALSE]

\* The record the except handler dumps: {"error": str(e)} (333-335).
error_result == [object |-> TRUE, cutSegments |-> "missing", error |-> TRUE]

\* What the file at output_path of job j holds once a dump has completed.
SlotContent(j) ==
    CASE output[j] = "result" -> run_inference(response[j])
      [] output[j] = "error"  -> error_result
      [] OTHER                -> [object |-> FALSE, cutSegments |-> "missing", error |-> FALSE]

\* The third field of the tuple job j returned: len(result.get("cutSegments",
\* [])) on success (327-330; "some" stands for the length of a non-empty
\* list), 0 in the failure tuple (336).
segments(j) ==
    IF jobPc[j] = "succeeded" /\ run_inference(response[j]).cutSegments = "list"
    THEN "some" ELSE "0"

\* The current step of job j completes; after the last one the closure
\* returns its success tuple.  The model call's answer is chosen when the
\* call completes; the count completes only on a dict (result.get, 322).
StepOk(j) ==
    /\ jobPc[j] \in StepNames
    /\ jobPc[j] = "count" => run_inference(response[j]).object
    /\ LET k == StepIndex(j) IN
        /\ jobPc' = [jobPc EXCEPT ![j] = IF k = Len(JobSteps(script)) THEN "succeeded"
                                         ELSE JobSteps(script)[k + 1]]
        /\ output' = [output EXCEPT ![j] = OutputAfter(jobPc[j], @)]
    /\ \E r \in IF jobPc[j] = "infer" THEN Responses ELSE {response[j]} :
           response' = [response EXCEPT ![j] = r]
    /\ UNCHANGED <<script, tasks, submitted, work_queue, num_threads, results, mainPc, restD>>

\* visualize_steps.process_video returns (name, False, "Not numbered list
\* format", None) without raising when a steps field is empty (188-190).
StepReject(j) ==
    /\ script = "visualize_steps"
    /\ jobPc[j] = "load_json"
    /\ jobPc' = [jobPc EXCEPT ![j] = "failed"]
    /\ UNCHANGED <<script, tasks, submitted, work_queue, num_threads, output,
                   results, mainPc, response, restD>>

\* The current step of job j raises: control goes to the except handler.
\* A failing dump may already have created or truncated the output file.
StepFail(j) ==
    /\ jobPc[j] \in StepNames
    /\ jobPc' = [jobPc EXCEPT ![j] = "handler"]
    /\ \E o \in IF jobPc[j] = "persist" THEN {output[j], "truncated"} ELSE {output[j]} :
           output' = [output EXCEPT ![j] = o]
    /\ UNCHANGED <<script, tasks, submitted, work_queue, num_threads, results, mainPc, response, restD>>

\* The except handler ends normally: the closure returns its failure tuple.
\* In run_inference it first overwrites output_path with {"error": str(e)}.
HandlerReturn(j) ==
    /\ jobPc[j] = "handler"
    /\ jobPc' = [jobPc EXCEPT ![j] = "failed"]
    /\ output' = [output EXCEPT ![j] = IF script = "run_inference" THEN "error" ELSE @]
    /\ UNCHANGED <<script, tasks, submitted, work_queue, num_threads, results, mainPc, response, restD>>

\* The write inside the except handler raises: the exception leaves the
\* closure and is stored in the future.
HandlerRaise(j) ==
    /\ jobPc[j] = "handler"
    /\ HandlerCanRaise(script)
    /\ jobPc' = [jobPc EXCEPT ![j] = "raised"]
    /\ \E o \in {output[j], "truncated"} : output' = [output EXCEPT ![j] = o]
    /\ UNCHANGED <<script, tasks, submitted, work_queue, num_threads, results, mainPc, response, restD>>

\* One turn of `for future in as_completed(futures)`: a finished future not
\* yet yielded is yielded; future.result() returns the closure's tuple, which
\* is appended to results, or re-raises the closure's exception in main.
Collect ==
    /\ mainPc = "collect"
    /\ ~AllCollected(results, tasks)
    /\ \E j \in Jobs :
        /\ jobPc[j] \in Ended
        /\ j \notin Collected
        /\ IF jobPc[j] = "raised"
           THEN /\ mainPc' = "unwinding"
                /\ UNCHANGED results
           ELSE /\ results' = Append(results, <<j, jobPc[j]>>)
                /\ UNCHANGED mainPc
    /\ UNCHANGED <<script, tasks, submitted, work_queue, num_threads, jobPc, output, response, restD>>

\* The for loop has ended; the with block exits through
\* executor.shutdown(wait=True), which returns when every worker has ended.
Shutdown ==
    /\ mainPc = "collect"
    /\ AllCollected(results, tasks)
    /\ \A j \in Jobs : jobPc[j] \in Ended
    /\ mainPc' = "summary"
    /\ UNCHANGED <<script, tasks, submitted, work_queue, num_threads, jobPc, output,
                   results, response, restD>>

\* The exception of future.result() leaves the with block: shutdown(wait=True)
\* still waits for every job, then main ends with the traceback.
Unwind ==
    /\ mainPc = "unwinding"
    /\ \A j \in Jobs : jobPc[j] \in Ended
    /\ mainPc' = "crashed"
    /\ UNCHANGED <<script, tasks, submitted, work_queue, num_threads, jobPc, output,
                   results, response, restD>>

\* The summary after the with block is printed and main returns.
PrintSummary ==
    /\ mainPc = "summary"
    /\ mainPc' = "returned"
    /\ UNCHANGED <<script, tasks, submitted, work_queue, num_threads, jobPc, output,
                   results, response, restD>>

\* The ways main can be over, and the exit status of the process for each:
\* main returned after the summary, or after the ERROR line of the zero-job
\* check, and the interpreter exits with 0 (no script calls sys.exit after
\* its summary: run_inference 360-387, burn_subtitles 222-241, visualize_steps
\* 310-329); sys.exit(1) or an uncaught exception gives 1.
MainOver == {"returned", "error_returned", "error_exit_1", "crashed"}

exit_status(pc) == IF pc \in {"error_exit_1", "crashed"} THEN 1 ELSE 0

NextDispatch ==
    \/ Begin
    \/ Submit
    \/ WorkerTake
    \/ \E j \in Jobs : StepOk(j)
    \/ \E j \in Jobs : StepReject(j)
    \/ \E j \in Jobs : StepFail(j)
    \/ \E j \in Jobs : HandlerReturn(j)
    \/ \E j \in Jobs : HandlerRaise(j)
    \/ Collect
    \/ Shutdown
    \/ Unwind
    \/ PrintSummary

SpecDispatch == InitDispatch /\ [][NextDispatch]_vars

-----------------------------------------------------------------------------
(* Batch dispatch, counting model: the same executor with the jobs counted  *)
(* instead of named, so that a batch can hold more jobs than max_workers    *)
(* (20 for run_inference).                                                  *)

InitPool ==
    /\ IdleWidgets
    /\ IdleBucket
    /\ script \in Scripts
    /\ tasks \in 0..(max_workers(script) + MaxOver)
    /\ submitted = 0
    /\ num_threads = 0
    /\ queued = 0
    /\ running = 0
    /\ finished = 0
    /\ work_queue = <<>>
    /\ jobPc = <<>>
    /\ output = <<>>
    /\ response = <<>>
    /\ results = <<>>
    /\ mainPc = "none"
    /\ IdleBlind
    /\ IdleSession
    /\ IdleLedger
    /\ IdleWriters
    /\ IdleAggregate

\* executor.submit: the job is queued; a thread is started when none is idle
\* and fewer than max_workers exist.
PoolSubmit ==
    /\ submitted < tasks
    /\ submitted' = submitted + 1
    /\ queued' = queued + 1
    /\ num_threads' = IF num_threads - running <= 0 /\ MaySpawn(num_threads, script)
                      THEN num_threads + 1 ELSE num_threads
    /\ UNCHANGED <<script, tasks, work_queue, jobPc, output, response, results, mainPc,
                   running, finished, restP>>

\* An idle worker thread takes a queued job.
PoolTake ==
    /\ queued > 0
    /\ running < num_threads
    /\ queued' = queued - 1
    /\ running' = running + 1
    /\ UNCHANGED <<dvars, finished, restP>>

\* A running job's closure ends (returns or raises); its thread is idle again.
PoolFinish ==
    /\ running > 0
    /\ running' = running - 1
    /\ finished' = finished + 1
    /\ UNCHANGED <<dvars, queued, restP>>

NextPool == PoolSubmit \/ PoolTake \/ PoolFinish

SpecPool == InitPool /\ [][NextPool]_vars

-----------------------------------------------------------------------------
(* Blind assignment: generate_color_mapping.py and visualize_steps.py on    *)
(* one batch (run directory).  Both write <run>/color_mapping.json.         *)

BlindVideos == 1..NumVideos

\* Producer names in the order sorted(glob("*.json")) lists a video's files:
\* model1 and model2 are run_inference's default names, model3 stands for any
\* further producer with a file in the directory.
ModelOrder == <<"model1", "model2", "model3">>

ModelNames == {ModelOrder[i] : i \in 1..Len(ModelOrder)}

Labels == {"red", "yellow"}

\* The producers of video v, in file order (video_dict[v]).
ModelsOf(v) == SelectSeq(ModelOrder, LAMBDA m : <<v, m>> \in json_files)

Producers(v) == {m \in ModelNames : <<v, m>> \in json_files}

\* A colour pick that may give both producers the same colour.
ColorOrdersRepeat == {<<a, b>> : a \in Labels, b \in Labels}

\* colors = ["red", "yellow"]; random.shuffle(colors): the two orders.
ColorOrders == {<<"red", "yellow">>, <<"yellow", "red">>}

\* {first: colors[0], second: colors[1]}
ColorEntry(first, second, colors) == (first :> colors[1]) @@ (second :> colors[2])

\* len(models) >= 2 (generate_color_mapping 44, visualize_steps 256)
ValidVideos == {v \in BlindVideos : Len(ModelsOf(v)) >= 2}

\* The videos a generator's output names as skipped.  A video with fewer
\* than two producers fails the test len(models) >= 2, which has no else
\* branch in either generator (generate_color_mapping 43-50, visualize_steps
\* 254-257): nothing is printed about it.
SkippedWarned(run) == {}

InitBlind ==
    /\ IdleWidgets
    /\ IdleBucket
    /\ json_files \in SUBSET (BlindVideos \X ModelNames)
    /\ mapping_exists = FALSE
    /\ color_mapping = <<>>
    /\ lastRun = "none"
    /\ IdleDispatch
    /\ IdlePool
    /\ IdleSession
    /\ IdleLedger
    /\ IdleWriters
    /\ IdleAggregate

\* generate_color_mapping.main: every video with at least two producers gets
\* a fresh shuffle for its first two producers; the file is rewritten.
GenerateColorMapping ==
    /\ \E sh \in [ValidVideos -> ColorOrders] :
         color_mapping' = [v \in ValidVideos |->
                              ColorEntry(ModelsOf(v)[1], ModelsOf(v)[2], sh[v])]
    /\ mapping_exists' = TRUE
    /\ lastRun' = "generate"
    /\ UNCHANGED <<json_files, restB>>

\* model_names = list(list(valid_videos.values())[0].keys()): the producers of
\* the first valid video name the two producers of every video.
FirstValid == CHOOSE v \in ValidVideos : \A w \in ValidVideos : v <= w

\* visualize_steps.main finds no JSON file or no valid pair and returns
\* before anything is written (239-241, 259-261).
VisualizeNothing ==
    /\ ValidVideos = {}
    /\ lastRun' = "visualize_no_pairs"
    /\ UNCHANGED <<json_files, mapping_exists, color_mapping, restB>>

\* models[model1_name] raises KeyError in main for a valid video that lacks
\* one of the first video's two producers (282-283): main ends inside the
\* with block and color_mapping.json is not written.
VisualizeKeyError ==
    /\ ValidVideos # {}
    /\ \E v \in ValidVideos :
         {ModelsOf(FirstValid)[1], ModelsOf(FirstValid)[2]} \ Producers(v) # {}
    /\ lastRun' = "visualize_crashed"
    /\ UNCHANGED <<json_files, mapping_exists, color_mapping, restB>>

\* visualize_steps.main runs to its end: each job shuffles the colours and
\* either succeeds, returning its colour map, or fails; the colour maps of
\* the successful jobs are written to color_mapping.json.
VisualizeSteps ==
    /\ ValidVideos # {}
    /\ \A v \in ValidVideos :
         {ModelsOf(FirstValid)[1], ModelsOf(FirstValid)[2]} \subseteq Producers(v)
    /\ \E ok \in SUBSET ValidVideos :
       \E sh \in [ok -> ColorOrders] :
         color_mapping' = [v \in ok |->
                              ColorEntry(ModelsOf(FirstValid)[1], ModelsOf(FirstValid)[2], sh[v])]
    /\ mapping_exists' = TRUE
    /\ lastRun' = "visualize"
    /\ UNCHANGED <<json_files, restB>>

NextBlind ==
    \/ GenerateColorMapping
    \/ VisualizeNothing
    \/ VisualizeKeyError
    \/ VisualizeSteps

SpecBlind == InitBlind /\ [][NextBlind]_vars

-----------------------------------------------------------------------------
(* Scoring app: the rater sampler (get_videos_from_gcs) and the session     *)
(* handlers of main() that call it.                                         *)

\* The generator behind random.seed / random.randint / random.shuffle, as a
\* linear congruential generator of RngMod states: one step per draw.
RngNext(s) == (5 * s + 3) % RngMod

\* random.seed(int(time.time() * 1000) % 2**32)
SeedInt(t) == t % RngMod

\* random.seed(rater_id) for the string "rater_NNNN": a fixed function of the
\* string.
SeedStr(r) == (7 * r + 1) % RngMod

\* random.randint(1000, 9999)
RaterLow == 1000

RandInt(s) == RaterLow + (s % RaterSpan)

\* A sampler that shuffles with whatever state the generator is in.
SamplerSeedStale(r, s) == s

\* The state the shuffle of get_videos_from_gcs starts from, for rater r when
\* the generator was in state s: random.seed(rater_id) replaces the state.
SamplerSeed(r, s) == SeedStr(r)

\* random.shuffle(x): for i in reversed(range(1, len(x))): j = randbelow(i + 1);
\* x[i], x[j] = x[j], x[i].  Positions are 1-based here.
RECURSIVE ShuffleFrom(_, _, _)
ShuffleFrom(x, i, s) ==
    IF i < 2 THEN x
    ELSE LET s2 == RngNext(s)
             j  == 1 + (s2 % i)
         IN  ShuffleFrom([x EXCEPT ![i] = x[j], ![j] = x[i]], i - 1, s2)

Shuffle(x, s) == ShuffleFrom(x, Len(x), s)

\* The generator's state after shuffling a list of n elements from state s.
RECURSIVE RngAfter(_, _)
RngAfter(n, s) == IF n < 2 THEN s ELSE RngAfter(n - 1, RngNext(s))

\* videos[:3]
SampleSize == 3

Prefix(x, n) == SubSeq(x, 1, IF Len(x) < n THEN Len(x) ELSE n)

PoolVideos == 1..PoolSize

\* The items 1..PoolSize listed from item k + 1 on, wrapping around.
Rotated(k) == [i \in 1..PoolSize |-> ((i + k - 1) % PoolSize) + 1]

\* The items in name order with the first two exchanged.
FirstTwoSwapped == [i \in 1..PoolSize |-> IF i = 1 THEN 2 ELSE IF i = 2 THEN 1 ELSE i]

\* The items of the run in the order get_videos_from_gcs builds its list
\* `videos` (the order in which list_blobs first shows each video): the empty
\* run, or all PoolSize items in name order, in a rotation of it, or with the
\* first two exchanged.
Listings ==
    {<<>>} \cup {Rotated(k) : k \in 0..(PoolSize - 1)} \cup {FirstTwoSwapped}

\* No color_mapping.json under the run's json/ prefix: color_map stays {}.
NoColorMap == <<>>

\* color_map.get(video_name, {}).get(model, default)
ColorOf(cm, v, m, default) ==
    IF v \in DOMAIN cm /\ m \in DOMAIN cm[v] THEN cm[v][m] ELSE default

\* The list `videos` before the shuffle (149-163); the two producers are the
\* run's two model names in blob order.
VideoList(listing, cm) ==
    [i \in 1..Len(listing) |->
        [name   |-> listing[i],
         model1 |-> "model1",
         model2 |-> "model2",
         color1 |-> ColorOf(cm, listing[i], "model1", "yellow"),
         color2 |-> ColorOf(cm, listing[i], "model2", "red")]]

\* get_videos_from_gcs(run, rater_id) when the generator is in state s:
\* random.seed(rater_id); random.shuffle(videos); return videos[:3]
GetVideos(r, listing, cm, s) ==
    Prefix(Shuffle(VideoList(listing, cm), SamplerSeed(r, s)), SampleSize)

RngAfterGetVideos(r, listing, s) == RngAfter(Len(listing), SamplerSeed(r, s))

Names(vs) == [i \in 1..Len(vs) |-> vs[i].name]

CallRecord(r, listing, cm, s) ==
    [rater |-> r, pool |-> listing, entry |-> s,
     out |-> Names(GetVideos(r, listing, cm, s))]

InitSampler ==
    /\ IdleWidgets
    /\ IdleBucket
    /\ rngState \in 0..(RngMod - 1)
    /\ welcome_seen = FALSE
    /\ selected_run = "none"
    /\ rater_id = 0
    /\ videos = <<>>
    /\ current_idx = 0
    /\ lastCall = NoCall
    /\ prevCall = NoCall
    /\ IdleDispatch
    /\ IdlePool
    /\ IdleBlind
    /\ IdleLedger
    /\ IdleWriters
    /\ IdleAggregate

\* "Let's Start" on the welcome screen (377-379).
ClickLetsStart ==
    /\ ~welcome_seen
    /\ welcome_seen' = TRUE
    /\ UNCHANGED <<rngState, selected_run, rater_id, videos, current_idx,
                   lastCall, prevCall, lvars, restS>>
    /\ lastSubmit' = NoSubmit

\* The latest run is selected silently (386-401).
SelectRun ==
    /\ welcome_seen
    /\ selected_run = "none"
    /\ selected_run' = "latest"
    /\ UNCHANGED <<rngState, welcome_seen, rater_id, videos, current_idx,
                   lastCall, prevCall, lvars, restS>>
    /\ lastSubmit' = NoSubmit

\* "Start" (421-434) at time t, when the run lists its items as L and its
\* colour map is cm: the generator is seeded from the clock, the rater id is
\* drawn, and the rater's videos are sampled.  rec says what is recorded of
\* the call: "last" puts it in lastCall, "both" also moves the call lastCall
\* held to prevCall, "none" records nothing.
ClickStart(t, L, cm, rec) ==
    /\ welcome_seen
    /\ selected_run # "none"
    /\ rater_id = 0
    /\ LET s1 == RngNext(SeedInt(t))
           r  == RandInt(s1)
       IN  /\ rater_id' = r
           /\ videos' = GetVideos(r, L, cm, s1)
           /\ rngState' = RngAfterGetVideos(r, L, s1)
           /\ lastCall' = IF rec = "none" THEN lastCall ELSE CallRecord(r, L, cm, s1)
    /\ prevCall' = IF rec = "both" THEN lastCall ELSE prevCall
    /\ UNCHANGED <<welcome_seen, selected_run, current_idx, lvars, restS>>
    /\ lastSubmit' = NoSubmit

\* "Load videos if not loaded" (437-442): every rerun of a session whose
\* list is empty samples again with the session's rater id.
LoadVideos(L, cm, rec) ==
    /\ welcome_seen
    /\ selected_run # "none"
    /\ rater_id # 0
    /\ videos = <<>>
    /\ videos' = GetVideos(rater_id, L, cm, rngState)
    /\ rngState' = RngAfterGetVideos(rater_id, L, rngState)
    /\ lastCall' = IF rec = "none" THEN lastCall ELSE CallRecord(rater_id, L, cm, rngState)
    /\ prevCall' = IF rec = "both" THEN lastCall ELSE prevCall
    /\ UNCHANGED <<welcome_seen, selected_run, rater_id, current_idx, lvars, restS>>
    /\ lastSubmit' = NoSubmit

\* "Skip to next" when the video could not be downloaded (473-477).
ClickSkip ==
    /\ rater_id # 0
    /\ current_idx < Len(videos)
    /\ current_idx' = current_idx + 1
    /\ UNCHANGED <<rngState, welcome_seen, selected_run, rater_id, videos,
                   lastCall, prevCall, lvars, restS>>
    /\ lastSubmit' = NoSubmit

\* "Score More Videos" (456-459) deletes every key of the session state;
\* init_session then sets the defaults again.
ClickScoreMore ==
    /\ rater_id # 0
    /\ videos # <<>>
    /\ current_idx >= Len(videos)
    /\ welcome_seen' = FALSE
    /\ selected_run' = "none"
    /\ rater_id' = 0
    /\ videos' = <<>>
    /\ current_idx' = 0
    /\ UNCHANGED <<rngState, lastCall, prevCall, lvars, restS>>
    /\ lastSubmit' = NoSubmit

\* A new browser session (a page reload): init_session on an empty session
\* state (76-89).  The process and its generator stay.
NewSession ==
    /\ welcome_seen
    /\ welcome_seen' = FALSE
    /\ selected_run' = "none"
    /\ rater_id' = 0
    /\ videos' = <<>>
    /\ current_idx' = 0
    /\ UNCHANGED <<rngState, lastCall, prevCall, lvars, restS>>
    /\ lastSubmit' = NoSubmit

NextSampler ==
    \/ ClickLetsStart
    \/ SelectRun
    \/ \E t \in 0..MaxTime, L \in Listings, rec \in {"last", "both"} :
          ClickStart(t, L, NoColorMap, rec)
    \/ \E L \in Listings, rec \in {"last", "both"} : LoadVideos(L, NoColorMap, rec)
    \/ ClickSkip
    \/ ClickScoreMore
    \/ NewSession

SpecSampler == InitSampler /\ [][NextSampler]_vars

-----------------------------------------------------------------------------
(* Scoring app: the score ledger and the binary "Submit & Next" handler.    *)
(* st.session_state.mode is 'binary' in every session: show_mode_override   *)
(* is never set, so the mode screen (405-418) is never shown.               *)
(* Binary scores are counted in halves: 2 is a score of 1, 1 is 0.5.        *)

\* The run lists its items in name order, or holds none.
SortedListing == [i \in 1..PoolSize |-> i]

AppListings == {<<>>, SortedListing}

\* Colour maps the run may hold: none, both producers of every item, or only
\* the second producer of every item.
FullColorMap == [v \in PoolVideos |-> ("model1" :> "red") @@ ("model2" :> "yellow")]

PartialColorMap == [v \in PoolVideos |-> ("model2" :> "yellow")]

AppColorMaps == {NoColorMap, FullColorMap, PartialColorMap}

Choices == {"first", "second", "equal"}

\* The radio option picked: emoji1 + COLOR1, emoji2 + COLOR2 or "Both equal"
\* (504-511), by the colour word it holds.
OptionText(choice, color1, color2) ==
    CASE choice = "first"  -> color1
      [] choice = "second" -> color2
      [] choice = "equal"  -> "equal"

\* A scoring that records a tie as 0 for both.
BinaryScoresTieZero(choice, color1, color2) ==
    IF choice = "equal" THEN <<0, 0>>
    ELSE IF OptionText(choice, color1, color2) = color1 THEN <<2, 0>> ELSE <<0, 2>>

\* score1, score2 of lines 515-520:
\*   "equal" in choice.lower() -> 0.5, 0.5
\*   color1.upper() in choice  -> 1, 0
\*   else                      -> 0, 1
BinaryScores(choice, color1, color2) ==
    IF OptionText(choice, color1, color2) = "equal" THEN <<1, 1>>
    ELSE IF OptionText(choice, color1, color2) = color1 THEN <<2, 0>> ELSE <<0, 2>>

\* The row save_score_to_gcs builds in binary mode (232-246); the timestamp
\* is left out.
BinaryRow(rater, video, color, model, score) ==
    [rater_id |-> rater, video |-> video, color |-> color, model |-> model,
     mode |-> "binary", coverage |-> "binary", order |-> score,
     verb |-> "", specificity |-> "", hallucination |-> "", score |-> "",
     notes |-> ""]

\* load_scores_from_gcs: the rows of the object; the empty table when the
\* download or the parse raises anything (the object is missing, or any
\* other error: the bare except at 213).
LoadScores(exists, rows, readOk) == IF exists /\ readOk THEN rows ELSE <<>>

\* The 13 columns of the empty DataFrame load_scores_from_gcs returns (215-218).
LedgerColumns ==
    <<"timestamp", "rater_id", "video", "color", "model", "mode", "coverage",
      "order", "verb", "specificity", "hallucination", "score", "notes">>

\* The keys of the dict `data` (232-260), the same in both modes.
DataKeys ==
    <<"timestamp", "rater_id", "video", "color", "model", "mode", "coverage",
      "order", "verb", "specificity", "hallucination", "score", "notes">>

\* A load that returns a table without columns when the read raises.
LoadColumnsBare(exists, cols, readOk) == IF exists /\ readOk THEN cols ELSE <<>>

\* The columns of the table load_scores_from_gcs returns: the header of the
\* object, or the fixed 13 columns when the read raised.
LoadColumns(exists, cols, readOk) == IF exists /\ readOk THEN cols ELSE LedgerColumns

\* The columns of pd.concat([a, b]): those of a, then those of b not in a.
ConcatColumns(a, b) ==
    a \o SelectSeq(b, LAMBDA c : \A i \in 1..Len(a) : a[i] # c)

\* The header save_score_to_gcs uploads.
NewColumns(exists, cols, readOk) == ConcatColumns(LoadColumns(exists, cols, readOk), DataKeys)

\* A save that replaces the rows of the same rater, video and colour.
NewTableUpsert(exists, rows, readOk, row) ==
    Append(SelectSeq(LoadScores(exists, rows, readOk),
                     LAMBDA x : ~(x.rater_id = row.rater_id /\ x.video = row.video
                                  /\ x.color = row.color)), row)

\* save_score_to_gcs up to the upload: the table that is uploaded.
NewTable(exists, rows, readOk, row) == Append(LoadScores(exists, rows, readOk), row)

InitApp ==
    /\ IdleWidgets
    /\ IdleBucket
    /\ rngState \in 0..(RngMod - 1)
    /\ welcome_seen = FALSE
    /\ selected_run = "none"
    /\ rater_id = 0
    /\ videos = <<>>
    /\ current_idx = 0
    /\ lastCall = NoCall
    /\ prevCall = NoCall
    /\ ledger_exists = FALSE
    /\ ledger = <<>>
    /\ ledger_columns = <<>>
    /\ lastSubmit = NoSubmit
    /\ IdleWriters
    /\ IdleAggregate
    /\ IdleDispatch
    /\ IdlePool
    /\ IdleBlind

\* How one call of save_score_to_gcs ends: "ok"; "read_error", the read
\* inside it raised and the table starts empty; "upload_error", the upload
\* raised (231, 267-269 are not guarded) and nothing was written.
SaveOutcomes == {"ok", "read_error", "upload_error"}

\* A handler that advances whether or not the saves returned.
IdxAfterSubmitAlways(idx, saved) == idx + 1

\* st.session_state.current_idx += 1 (531, 585) follows the two saves inside
\* the handler: it is reached only when both calls returned.
IdxAfterSubmit(idx, saved) == IF saved THEN idx + 1 ELSE idx

\* "Submit & Next" in binary mode (513-532) with the rater's choice; o1, o2
\* are the outcomes of the two saves.  An upload that raises ends the
\* handler there: the second save is skipped and current_idx not advanced.
ClickSubmit(choice, o1, o2) ==
    /\ welcome_seen
    /\ selected_run # "none"
    /\ rater_id # 0
    /\ current_idx < Len(videos)
    /\ Len(ledger) + 2 <= MaxRows
    /\ o1 = "upload_error" => o2 = "upload_error"
    /\ LET video == videos[current_idx + 1]
           sc    == BinaryScores(choice, video.color1, video.color2)
           row1  == BinaryRow(rater_id, video.name, video.color1, video.model1, sc[1])
           row2  == BinaryRow(rater_id, video.name, video.color2, video.model2, sc[2])
           up1   == o1 # "upload_error"
           up2   == up1 /\ o2 # "upload_error"
           mid   == IF up1 THEN NewTable(ledger_exists, ledger, o1 = "ok", row1)
                    ELSE ledger
           midEx == ledger_exists \/ up1
           end   == IF up2 THEN NewTable(midEx, mid, o2 = "ok", row2) ELSE mid
           midC  == IF up1 THEN NewColumns(ledger_exists, ledger_columns, o1 = "ok")
                    ELSE ledger_columns
           endC  == IF up2 THEN NewColumns(midEx, midC, o2 = "ok") ELSE midC
       IN  /\ ledger' = end
           /\ ledger_columns' = endC
           /\ ledger_exists' = midEx
           /\ current_idx' = IdxAfterSubmit(current_idx, up2)
           /\ lastSubmit' = [choice |-> choice, rows |-> <<row1, row2>>,
                             tables |-> IF ~up1 THEN <<ledger>>
                                        ELSE IF ~up2 THEN <<ledger, mid>>
                                        ELSE <<ledger, mid, end>>]
    /\ UNCHANGED <<rngState, welcome_seen, selected_run, rater_id, videos,
                   lastCall, prevCall, restS>>

NextApp ==
    \/ ClickLetsStart
    \/ SelectRun
    \/ \E t \in 0..MaxTime, L \in AppListings, cm \in AppColorMaps :
          ClickStart(t, L, cm, "none")
    \/ \E L \in AppListings, cm \in AppColorMaps : LoadVideos(L, cm, "none")
    \/ ClickSkip
    \/ ClickScoreMore
    \/ NewSession
    \/ \E choice \in Choices, o1, o2 \in SaveOutcomes : ClickSubmit(choice, o1, o2)

SpecApp == InitApp /\ [][NextApp]_vars

-----------------------------------------------------------------------------
(* Scoring app: the detailed "Submit & Next" handler (534-586), the else    *)
(* branch of `if st.session_state.mode == 'binary'`.                        *)

\* The keys of RUBRIC, in order (25-31).
RubricKeys == <<"coverage", "order", "verb", "specificity", "hallucination">>

\* st.number_input(..., min_value=0, max_value=100, value=0) (543-550, 560-567).
MinDeduction == 0
MaxDeduction == 100

\* The values the number inputs are given here: for the first output none, a
\* wrong verb, a missing step, the largest; for the second none or the largest.
DeductionValues1 == {MinDeduction, 3, 5, MaxDeduction}
DeductionValues2 == {MinDeduction, MaxDeduction}

\* sum(deductions.values())
RECURSIVE SumValues(_, _)
SumValues(d, keys) ==
    IF keys = <<>> THEN 0 ELSE d[Head(keys)] + SumValues(d, Tail(keys))

Max(a, b) == IF a >= b THEN a ELSE b

\* A score that is not floored.
DetailedScoreUnfloored(d) == 100 - SumValues(d, RubricKeys)

\* total = sum(deductions.values()); score = max(0, 100 - total) (551-552,
\* 568-569).
DetailedScore(d) == Max(0, 100 - SumValues(d, RubricKeys))

\* The row save_score_to_gcs builds in detailed mode (247-260): the five
\* deductions.get(key, 0), then the score; the timestamp is left out.
DetailedDataRow(rater, video, color, model, d, score) ==
    [rater_id |-> rater, video |-> video, color |-> color, model |-> model,
     mode |-> "detailed", coverage |-> d["coverage"], order |-> d["order"],
     verb |-> d["verb"], specificity |-> d["specificity"],
     hallucination |-> d["hallucination"], score |-> score, notes |-> ""]

\* A rater session in detailed mode on its first item, the number inputs of
\* the two outputs filled in; the ledger does not exist yet.
InitDetailed ==
    /\ deductions1 \in [{RubricKeys[i] : i \in 1..Len(RubricKeys)} -> DeductionValues1]
    /\ deductions2 \in [{RubricKeys[i] : i \in 1..Len(RubricKeys)} -> DeductionValues2]
    /\ IdleBucket
    /\ rngState = 0
    /\ welcome_seen = TRUE
    /\ selected_run = "run"
    /\ rater_id = RaterLow
    /\ videos = Prefix(VideoList(SortedListing, NoColorMap), 1)
    /\ current_idx = 0
    /\ lastCall = NoCall
    /\ prevCall = NoCall
    /\ ledger_exists = FALSE
    /\ ledger = <<>>
    /\ ledger_columns = <<>>
    /\ lastSubmit = NoSubmit
    /\ IdleWriters
    /\ IdleAggregate
    /\ IdleDispatch
    /\ IdlePool
    /\ IdleBlind

\* "Submit & Next" in detailed mode (578-586); o1, o2 are the outcomes of the
\* two saves.  An upload that raises ends the handler there: the second save
\* is skipped and current_idx not advanced.
ClickSubmitDetailed(o1, o2) ==
    /\ welcome_seen
    /\ selected_run # "none"
    /\ rater_id # 0
    /\ current_idx < Len(videos)
    /\ deductions1 # <<>>
    /\ Len(ledger) + 2 <= MaxRows
    /\ o1 = "upload_error" => o2 = "upload_error"
    /\ LET video == videos[current_idx + 1]
           row1  == DetailedDataRow(rater_id, video.name, video.color1, video.model1,
                                    deductions1, DetailedScore(deductions1))
           row2  == DetailedDataRow(rater_id, video.name, video.color2, video.model2,
                                    deductions2, DetailedScore(deductions2))
           up1   == o1 # "upload_error"
           up2   == up1 /\ o2 # "upload_error"
           mid   == IF up1 THEN NewTable(ledger_exists, ledger, o1 = "ok", row1)
                    ELSE ledger
           midEx == ledger_exists \/ up1
           end   == IF up2 THEN NewTable(midEx, mid, o2 = "ok", row2) ELSE mid
           midC  == IF up1 THEN NewColumns(ledger_exists, ledger_columns, o1 = "ok")
                    ELSE ledger_columns
           endC  == IF up2 THEN NewColumns(midEx, midC, o2 = "ok") ELSE midC
       IN  /\ ledger' = end
           /\ ledger_columns' = endC
           /\ ledger_exists' = midEx
           /\ current_idx' = IdxAfterSubmit(current_idx, up2)
           /\ lastSubmit' = [choice |-> "detailed", rows |-> <<row1, row2>>,
                             tables |-> IF ~up1 THEN <<ledger>>
                                        ELSE IF ~up2 THEN <<ledger, mid>>
                                        ELSE <<ledger, mid, end>>]
    /\ UNCHANGED <<rngState, welcome_seen, selected_run, rater_id, videos,
                   lastCall, prevCall, restS>>

NextDetailed == \E o1, o2 \in SaveOutcomes : ClickSubmitDetailed(o1, o2)

SpecDetailed == InitDetailed /\ [][NextDetailed]_vars

-----------------------------------------------------------------------------
(* The pipeline from a finished batch to the scoring app: the generators    *)
(* write <run>/color_mapping.json, upload_inference_to_gcs.py copies the    *)
(* run to inference_runs/<run>/ in the bucket, the app lists it from there. *)

\* upload_run_to_gcs: every file of json_dir.glob("*.json") is uploaded to
\* <gcs_path>/json/<name> (40-48).  Nothing else of the run directory is
\* uploaded; color_mapping.json lies in the run directory itself
\* (generate_color_mapping 53, visualize_steps 55), not in json/.
UploadedJson(files) == files

\* get_videos_from_gcs 129-135: color_map is the content of the blob named
\* color_mapping.json under <run>/json/ when the listing holds one, else {}.
LoadedColorMap(run) == IF run.color_mapping.exists THEN run.color_mapping.content
                       ELSE NoColorMap

\* get_videos_from_gcs 137-153: the videos with exactly two outputs under
\* <run>/json/, in name order (every output is a numbered list).
RunListing(run) ==
    SelectSeq([i \in 1..NumVideos |-> i],
              LAMBDA v : {m \in ModelNames : <<v, m>> \in run.json} = {"model1", "model2"})

\* A batch run_inference has finished for its two producers, not yet mapped
\* or uploaded; the app's process is up with no session under way.
InitPipeline ==
    /\ json_files = BlindVideos \X {"model1", "model2"}
    /\ mapping_exists = FALSE
    /\ color_mapping = <<>>
    /\ lastRun = "none"
    /\ gcs_run = NoRun
    /\ rngState \in 0..(RngMod - 1)
    /\ welcome_seen = FALSE
    /\ selected_run = "none"
    /\ rater_id = 0
    /\ videos = <<>>
    /\ current_idx = 0
    /\ lastCall = NoCall
    /\ prevCall = NoCall
    /\ IdleLedger
    /\ IdleWidgets
    /\ IdleDispatch
    /\ IdlePool
    /\ IdleWriters
    /\ IdleAggregate

\* The batch is labelled before it is uploaded.
GenerateBeforeUpload == /\ gcs_run.json = {} /\ GenerateColorMapping

VisualizeBeforeUpload == /\ gcs_run.json = {} /\ VisualizeSteps

\* python upload_inference_to_gcs.py <run_directory>
UploadRun ==
    /\ gcs_run' = [gcs_run EXCEPT !.json = UploadedJson(json_files)]
    /\ UNCHANGED <<dvars, pvars, bvars, svars, avars, wvars, gvars, kvars>>

\* "Start" on the uploaded run.
StartOnRun(t) ==
    /\ gcs_run.json # {}
    /\ ClickStart(t, RunListing(gcs_run), LoadedColorMap(gcs_run), "none")

NextPipeline ==
    \/ GenerateBeforeUpload
    \/ VisualizeBeforeUpload
    \/ UploadRun
    \/ ClickLetsStart
    \/ SelectRun
    \/ \E t \in 0..MaxTime : StartOnRun(t)
    \/ \E choice \in Choices, o1, o2 \in SaveOutcomes : ClickSubmit(choice, o1, o2)

SpecPipeline == InitPipeline /\ [][NextPipeline]_vars

-----------------------------------------------------------------------------
(* Score ledger: calls of save_score_to_gcs by concurrent writers.  Each    *)
(* Streamlit session runs in its own thread (and the app may run in several *)
(* processes); a call reads the object, appends in memory and uploads, with  *)
(* nothing that makes the three steps atomic.                                *)

\* The rows the writers save: one video, either colour (the colour's
\* producer), a won or a lost comparison, any of the raters.
LedgerRaters == RaterLow..(RaterLow + RaterSpan - 1)

LedgerRows ==
    {BinaryRow(r, 1, c, IF c = "red" THEN "model1" ELSE "model2", sc) :
        r \in LedgerRaters, c \in Labels, sc \in {0, 2}}

\* An upload that merges: it appends the call's row to what the object holds
\* at the time of the upload.
StoredMerged(current, row, new_df) == Append(current, row)

\* blob.upload_from_string(csv_string): the object becomes the call's table.
Stored(current, row, new_df) == new_df

InitLedger ==
    /\ IdleWidgets
    /\ IdleBucket
    /\ ledger_exists = FALSE
    /\ ledger = <<>>
    /\ ledger_columns = <<>>
    /\ lastSubmit = NoSubmit
    /\ writer = [w \in Writers |-> IdleCall]
    /\ calls = 0
    /\ acked = <<>>
    /\ lastStore = NoStore
    /\ IdleAggregate
    /\ IdleDispatch
    /\ IdlePool
    /\ IdleBlind
    /\ IdleSession

\* Writer w enters save_score_to_gcs with `row` and runs it up to the upload
\* (228-265): existing_df = load_scores_from_gcs(), new_df = concat.
SaveLoad(w, row, readOk) ==
    /\ writer[w].pc = "idle"
    /\ calls < MaxSaves
    /\ calls' = calls + 1
    /\ writer' = [writer EXCEPT ![w] =
          [pc |-> "loaded", row |-> row, existed |-> ledger_exists,
           readOk |-> readOk,
           loaded |-> LoadScores(ledger_exists, ledger, readOk),
           columns |-> LoadColumns(ledger_exists, ledger_columns, readOk),
           new_df |-> NewTable(ledger_exists, ledger, readOk, row)]]
    /\ UNCHANGED <<lvars, acked, lastStore, restL>>

\* The upload of w's call succeeds (267-269) and the call returns.
SaveStore(w) ==
    /\ writer[w].pc = "loaded"
    /\ LET c      == writer[w]
           new_df == c.new_df
           cols   == ConcatColumns(c.columns, DataKeys)
       IN  /\ ledger' = Stored(ledger, c.row, new_df)
           /\ ledger_exists' = TRUE
           /\ ledger_columns' = cols
           /\ acked' = Append(acked, [row |-> c.row, readOk |-> c.readOk])
           /\ lastStore' = [writer |-> w, row |-> c.row, existed |-> c.existed,
                            readOk |-> c.readOk, loaded |-> c.loaded,
                            loaded_columns |-> c.columns, table |-> new_df,
                            columns |-> cols]
    /\ writer' = [writer EXCEPT ![w] = IdleCall]
    /\ UNCHANGED <<calls, restL>>

\* The upload of w's call raises: the call ends with the exception, nothing
\* is written.
SaveUploadError(w) ==
    /\ writer[w].pc = "loaded"
    /\ writer' = [writer EXCEPT ![w] = IdleCall]
    /\ UNCHANGED <<lvars, calls, acked, lastStore, restL>>

NextLedger ==
    \/ \E w \in Writers, row \in LedgerRows, readOk \in BOOLEAN : SaveLoad(w, row, readOk)
    \/ \E w \in Writers : SaveStore(w)
    \/ \E w \in Writers : SaveUploadError(w)

SpecLedger == InitLedger /\ [][NextLedger]_vars

-----------------------------------------------------------------------------
(* Aggregation: visualize_results.main and analyze_scores.main on a local   *)
(* scores.csv.  Binary scores and their sums are counted in halves, as in   *)
(* the ledger rows: a reported sum of 7 is the number 14 here.              *)

\* The producer names visualize_results compares (45-46).
ProducerA == "finetuned"

ProducerB == "baseline"

\* The row save_score_to_gcs builds in detailed mode (247-260): coverage is
\* the coverage deduction as the CSV column holds it next to 'binary' (text),
\* the other deductions are 0, score is out of 100.
DetailedRow(rater, video, color, model, coverage, score) ==
    [rater_id |-> rater, video |-> video, color |-> color, model |-> model,
     mode |-> "detailed", coverage |-> coverage, order |-> 0,
     verb |-> 0, specificity |-> 0, hallucination |-> 0, score |-> score,
     notes |-> ""]

\* The kinds of judgment a scores file is built from, in the order the file
\* lists them: a binary pair won by A, won by B, tied; a binary pair of two
\* producers under run_inference's default names; the pair of video 1
\* submitted again; a pair of detailed rows; a lone first row of a pair.
JudgmentKinds == <<"A", "B", "tie", "other", "again", "detailed", "lone">>

KindRank(k) == CHOOSE i \in 1..Len(JudgmentKinds) : JudgmentKinds[i] = k

\* The rows of the n-th judgment of the file, of kind k: rater RaterLow on
\* video n, A shown in red.
JudgmentRows(k, n) ==
    CASE k = "A"        -> <<BinaryRow(RaterLow, n, "red", ProducerA, 2),
                             BinaryRow(RaterLow, n, "yellow", ProducerB, 0)>>
      [] k = "B"        -> <<BinaryRow(RaterLow, n, "red", ProducerA, 0),
                             BinaryRow(RaterLow, n, "yellow", ProducerB, 2)>>
      [] k = "tie"      -> <<BinaryRow(RaterLow, n, "red", ProducerA, 1),
                             BinaryRow(RaterLow, n, "yellow", ProducerB, 1)>>
      [] k = "other"    -> <<BinaryRow(RaterLow, n, "red", "model1", 2),
                             BinaryRow(RaterLow, n, "yellow", "model2", 0)>>
      [] k = "again"    -> <<BinaryRow(RaterLow, 1, "red", ProducerA, 2),
                             BinaryRow(RaterLow, 1, "yellow", ProducerB, 0)>>
      [] k = "detailed" -> <<DetailedRow(RaterLow, n, "red", ProducerA, "0", 100),
                             DetailedRow(RaterLow, n, "yellow", ProducerB, "10", 90)>>
      [] k = "lone"     -> <<BinaryRow(RaterLow, n, "red", ProducerA, 2)>>

\* Schemas of the file: "ledger" is the 13 columns the app writes; "extended"
\* has, besides them, the columns text_color (the colour) and final_score
\* (the row's score) that analyze_scores reads.
Schemas == {"ledger", "extended"}

HasColumn(schema, c) ==
    \/ \E i \in 1..Len(LedgerColumns) : LedgerColumns[i] = c
    \/ schema = "extended" /\ c \in {"text_color", "final_score"}

\* The columns each aggregation script reads by name: analyze_scores in
\* groupby(['video', 'text_color']) (58), group['final_score'] (60, 112) and
\* df['rater_id'] (80); visualize_results in load_and_clean_data and
\* analyze_binary_results (29-34, 48-49, 63, 83).  analyze_scores also reads
\* whatever columns start with deduct_ (125); the ledger has none.
AggregationScripts == {"analyze_scores", "visualize_results"}

ColumnsRead(s) ==
    IF s = "analyze_scores" THEN {"video", "text_color", "final_score", "rater_id"}
    ELSE {"coverage", "order", "model", "video", "rater_id"}

FinalScore(r) == IF r.mode = "binary" THEN r.order ELSE r.score

\* df[df['coverage'] == 'binary'] (30)
BinaryDf(rows) == SelectSeq(rows, LAMBDA r : r.coverage = "binary")

RECURSIVE SumOrder(_)
\* binary_df[...]['score'].sum(), score = pd.to_numeric(order) (35)
SumOrder(rows) == IF rows = <<>> THEN 0 ELSE Head(rows).order + SumOrder(Tail(rows))

\* binary_df[binary_df['model'] == m]['score'].sum() (45-46), in halves
Wins(binary_df, m) == SumOrder(SelectSeq(binary_df, LAMBDA r : r.model = m))

\* A count of comparisons that takes every row for a comparison.
TotalComparisonsPerRow(binary_df) == Len(binary_df)

\* total_comparisons = len(binary_df) // 2 (43)
TotalComparisons(binary_df) == Len(binary_df) \div 2

\* ties = total_comparisons - (finetuned_wins + baseline_wins) (47), in halves
Ties(total, a, b) == 2 * total - (a + b)

\* int(x) for a number given in halves: truncation towards zero
IntOfHalves(h) == IF h >= 0 THEN h \div 2 ELSE -((-h) \div 2)

\* A test run on the decisive comparisons only.
BinomArgsDecisive(a, b, t) == <<IntOfHalves(a), IntOfHalves(a + b)>>

\* stats.binomtest(int(ft_wins), int(ft_wins + bl_wins + ties), p=0.5,
\*                 alternative='two-sided') (206-207): k and n
BinomArgs(a, b, t) == <<IntOfHalves(a), IntOfHalves(a + b + t)>>

Modes(rows) == {rows[i].mode : i \in 1..Len(rows)}

\* visualize_results.main (249-273) on the file.
\*   - a missing file: pd.read_csv raises;
\*   - no binary row: "No binary comparison data found!", return;
\*   - else analyze_binary_results prints the summary (its divisions by
\*     total_comparisons are numpy divisions: by zero they give nan or inf
\*     and do not raise), and create_visualizations draws the plots and
\*     runs the test; the pie chart raises on a negative size and binomtest
\*     raises unless 0 <= k <= n and n >= 1.
VisualizeResults(exists, file) ==
    LET binary_df == BinaryDf(file.rows)
        total     == TotalComparisons(binary_df)
        a         == Wins(binary_df, ProducerA)
        b         == Wins(binary_df, ProducerB)
        t         == Ties(total, a, b)
        args      == BinomArgs(a, b, t)
        plotted   == t >= 0 /\ args[2] >= 1 /\ args[1] <= args[2]
    IN  IF ~exists THEN [NoReport EXCEPT !.by = "visualize_results", !.outcome = "raised"]
        ELSE IF Len(binary_df) = 0
        THEN [NoReport EXCEPT !.by = "visualize_results", !.outcome = "no_data"]
        ELSE [by |-> "visualize_results",
              outcome |-> IF plotted THEN "complete" ELSE "summary_then_raised",
              total |-> total, winsA |-> a, winsB |-> b, ties |-> t,
              binom |-> IF plotted THEN args ELSE <<>>,
              sections |-> {"overall", "per_video", "per_rater"}
                              \cup (IF plotted THEN {"plots", "statistics"} ELSE {}),
              stat_rows |-> Len(binary_df),
              stat_modes |-> Modes(binary_df),
              zero_division |-> total = 0,
              empty_mean |-> FALSE]

\* analyze_scores.main (137-140) on the file, when a directory output/run_*
\* exists (has_run) or not.
\*   - a missing file: "ERROR: ... not found", sys.exit(1) (18-20);
\*   - no run directory: "ERROR: No run directories found", return (41-43);
\*   - df.groupby(['video', 'text_color']) (55) raises KeyError on a file
\*     without that column;
\*   - else the per-group and the overall statistics are computed over all
\*     the rows of df (55-116): np.mean of no rows is nan, and np.min of no rows
\*     raises.
AnalyzeScores(exists, has_run, file) ==
    IF ~exists THEN [NoReport EXCEPT !.by = "analyze_scores", !.outcome = "exit_1"]
    ELSE IF ~has_run THEN [NoReport EXCEPT !.by = "analyze_scores", !.outcome = "no_run_dir"]
    ELSE IF ~HasColumn(file.columns, "text_color")
    THEN [NoReport EXCEPT !.by = "analyze_scores", !.outcome = "raised"]
    ELSE [by |-> "analyze_scores",
          outcome |-> IF file.rows = <<>> THEN "summary_then_raised" ELSE "complete",
          total |-> Len(file.rows) \div 2, winsA |-> 0, winsB |-> 0, ties |-> 0,
          binom |-> <<>>,
          sections |-> {"overall", "per_video"}
                          \cup (IF file.rows = <<>> THEN {} ELSE {"deductions"}),
          stat_rows |-> Len(file.rows),
          stat_modes |-> Modes(file.rows),
          zero_division |-> Len(file.rows) <= 1,
          empty_mean |-> file.rows = <<>>]

InitAggregate ==
    /\ IdleWidgets
    /\ IdleBucket
    /\ scores_file \in [columns : Schemas, rows : {<<>>}]
    /\ judgments = <<>>
    /\ report = NoReport
    /\ IdleDispatch
    /\ IdlePool
    /\ IdleBlind
    /\ IdleSession
    /\ IdleLedger
    /\ IdleWriters

\* The scores file gains one more judgment, of kind k.
AddJudgment(k) ==
    /\ Len(judgments) < MaxJudgments
    /\ judgments # <<>> => KindRank(k) >= KindRank(judgments[Len(judgments)])
    /\ k = "again" => judgments # <<>> /\ judgments[1] = "A"
    /\ judgments' = Append(judgments, k)
    /\ scores_file' = [scores_file EXCEPT
                          !.rows = @ \o JudgmentRows(k, Len(judgments) + 1)]
    /\ report' = NoReport
    /\ UNCHANGED restG

RunVisualizeResults(exists) ==
    /\ ~exists => scores_file.rows = <<>>
    /\ report' = VisualizeResults(exists, scores_file)
    /\ UNCHANGED <<scores_file, judgments, restG>>

RunAnalyzeScores(exists, has_run) ==
    /\ ~exists => scores_file.rows = <<>>
    /\ report' = AnalyzeScores(exists, has_run, scores_file)
    /\ UNCHANGED <<scores_file, judgments, restG>>

NextAggregate ==
    \/ \E i \in 1..Len(JudgmentKinds) : AddJudgment(JudgmentKinds[i])
    \/ \E exists \in BOOLEAN : RunVisualizeResults(exists)
    \/ \E exists, has_run \in BOOLEAN : RunAnalyzeScores(exists, has_run)

SpecAggregate == InitAggregate /\ [][NextAggregate]_vars

-----------------------------------------------------------------------------
(* Claims on the aggregation *)

NumKind(k) == Cardinality({i \in 1..Len(judgments) : judgments[i] = k})

Summarised == report.outcome \in {"complete", "summary_then_raised"}

C27_TiesAndWinsAreChoiceCounts ==
    (/\ report.by = "visualize_results"
     /\ Summarised
     /\ \A i \in 1..Len(judgments) : judgments[i] \in {"A", "B", "tie", "other"})
    => /\ report.ties = 2 * NumKind("tie")
       /\ report.winsA = 2 * NumKind("A")
       /\ report.winsB = 2 * NumKind("B")

SevenThree == judgments = <<"A", "A", "A", "A", "A", "A", "A", "B", "B", "B">>

C16_EmptyLedgerNoData ==
    (scores_file.rows = <<>> /\ report.by # "none") =>
        /\ report.outcome \in {"no_data", "exit_1"}
        /\ ~report.zero_division
        /\ ~report.empty_mean

HasDuplicates(rows) ==
    \E i, j \in 1..Len(rows) :
        /\ i < j
        /\ rows[i].rater_id = rows[j].rater_id
        /\ rows[i].video = rows[j].video
        /\ rows[i].color = rows[j].color

\* C18: when the file holds the same (rater, item, label) more than once, the
\* summary detects and reports the duplication: the duplicated rows are never
\* added into the win counts and totals without that report.
C18_DuplicatesSurfaced ==
    (report.by = "visualize_results" /\ Summarised /\ HasDuplicates(scores_file.rows)) =>
        "duplicates" \in report.sections

-----------------------------------------------------------------------------
(* Claims on the score ledger *)

RowsOf(rows, v, r) == {i \in 1..Len(rows) : rows[i].video = v /\ rows[i].rater_id = r}

Count(rows, x) == Cardinality({i \in 1..Len(rows) : rows[i] = x})

\* C8: after any sequence of app operations, every (item, rater) pair that
\* appears in the ledger has exactly two rows, one for each of the two labels.
C8_TwoRowsPerItemAndRater ==
    \A i \in 1..Len(ledger) :
        LET own == RowsOf(ledger, ledger[i].video, ledger[i].rater_id) IN
            /\ Cardinality(own) = 2
            /\ {ledger[k].color : k \in own} = Labels

\* C24: every item the app has loaded shows its two outputs under two
\* distinct labels, and the two rows a Submit hands to the ledger carry two
\* distinct labels, whatever the run's colour map holds for the item: no
\* entry, an entry for one of the two producers only, or a complete entry.
C24_DistinctLabelsShownAndRecorded ==
    /\ \A i \in 1..Len(videos) : videos[i].color1 # videos[i].color2
    /\ lastSubmit.choice # "none" => lastSubmit.rows[1].color # lastSubmit.rows[2].color

\* C25: in detailed mode every row a Submit hands to the ledger, and every
\* detailed row the ledger holds, has score = max(0, 100 - sum of its five
\* deductions), which lies in 0..100; the deductions coverage 5, order 0,
\* verb 3, specificity 0, hallucination 0 give score 92.
DeductionSum(r) == r.coverage + r.order + r.verb + r.specificity + r.hallucination

ScoredAsStated(r) ==
    /\ r.score = (IF 100 - DeductionSum(r) < 0 THEN 0 ELSE 100 - DeductionSum(r))
    /\ r.score \in 0..100
    /\ (r.coverage = 5 /\ r.order = 0 /\ r.verb = 3 /\ r.specificity = 0
        /\ r.hallucination = 0) => r.score = 92

C25_DetailedScoreFlooredAtZero ==
    /\ lastSubmit.choice = "detailed" =>
          \A i \in 1..Len(lastSubmit.rows) : ScoredAsStated(lastSubmit.rows[i])
    /\ \A i \in 1..Len(ledger) : ledger[i].mode = "detailed" => ScoredAsStated(ledger[i])

\* The ledger holds the row of the 5/0/3/0/0 example with score 92 and a row
\* whose deductions exceed 100 with score 0.
C25_Witness ==
    /\ \E i \in 1..Len(ledger) :
          /\ ledger[i].mode = "detailed"
          /\ ledger[i].coverage = 5 /\ ledger[i].verb = 3 /\ DeductionSum(ledger[i]) = 8
          /\ ledger[i].score = 92
    /\ \E i \in 1..Len(ledger) :
          /\ ledger[i].mode = "detailed"
          /\ DeductionSum(ledger[i]) > 100
          /\ ledger[i].score = 0

\* C26: for every item that has a persisted blind assignment, once the batch
\* is uploaded the app shows each producer of the item under the label the
\* persisted assignment gives it, and every ledger row's (label, producer)
\* pair agrees with the persisted assignment.
AgreesWithAssignment(v, model, color) ==
    (mapping_exists /\ v \in DOMAIN color_mapping /\ model \in DOMAIN color_mapping[v])
        => color_mapping[v][model] = color

C26_LabelsFollowPersistedAssignment ==
    gcs_run.json # {} =>
        /\ \A i \in 1..Len(videos) :
              /\ AgreesWithAssignment(videos[i].name, videos[i].model1, videos[i].color1)
              /\ AgreesWithAssignment(videos[i].name, videos[i].model2, videos[i].color2)
        /\ \A i \in 1..Len(ledger) :
              AgreesWithAssignment(ledger[i].video, ledger[i].model, ledger[i].color)

\* C28: the progress index of a rater session (one rater id) starts at 0 and
\* changes only by +1; a Submit advances it only when both of its rows have
\* been stored, the first by the first save and the second by the second,
\* and leaves it unchanged when either store failed.
C28_IndexAdvancesAfterBothStores ==
    /\ current_idx = 0
    /\ [][/\ rater_id' # rater_id => current_idx' = 0
          /\ (rater_id' = rater_id /\ current_idx' # current_idx)
                => current_idx' = current_idx + 1
          /\ lastSubmit'.choice # "none" =>
                LET t == lastSubmit'.tables
                    stored == /\ Len(t) = 3
                              /\ t[2] # <<>> /\ t[2][Len(t[2])] = lastSubmit'.rows[1]
                              /\ t[3] # <<>> /\ t[3][Len(t[3])] = lastSubmit'.rows[2]
                IN  /\ stored => current_idx' = current_idx + 1
                    /\ ~stored => current_idx' = current_idx
                    /\ lastSubmit'.rows[1].video = videos[current_idx + 1].name
                    /\ lastSubmit'.rows[2].video = videos[current_idx + 1].name]_vars

\* A Submit whose first save stored its row and whose second save failed: the
\* index is still 0.
C28_Witness ==
    /\ lastSubmit.choice # "none"
    /\ Len(lastSubmit.tables) = 2
    /\ Len(ledger) = 1
    /\ current_idx = 0
    /\ videos # <<>>

\* C29: the identifier a session receives at Start differs from the
\* identifier of every other session: it is not the rater_id of any row an
\* earlier session has written to the ledger.
C29_RaterIdNewAtStart ==
    [][(rater_id = 0 /\ rater_id' # 0) =>
          \A i \in 1..Len(ledger) : ledger[i].rater_id # rater_id']_vars

\* C30: every column an aggregation script reads from the ledger is a column
\* of the header the app has written, and of the fixed schema.
C30_ColumnsReadAreLedgerColumns ==
    ledger_exists =>
        \A sc \in AggregationScripts : \A c \in ColumnsRead(sc) :
            /\ \E i \in 1..Len(ledger_columns) : ledger_columns[i] = c
            /\ \E i \in 1..Len(LedgerColumns) : LedgerColumns[i] = c

\* C9: the two rows one binary Submit hands to the ledger for its (item,
\* rater) carry the scores (1, 0), (0, 1) or (0.5, 0.5) (in halves: (2, 0),
\* (0, 2), (1, 1)): the two always sum to exactly 1, for each of the three
\* choices.
C9_BinaryPairSumsToOne ==
    lastSubmit.choice # "none" =>
        LET r1 == lastSubmit.rows[1]
            r2 == lastSubmit.rows[2]
        IN  /\ r1.mode = "binary" /\ r2.mode = "binary"
            /\ r1.video = r2.video /\ r1.rater_id = r2.rater_id
            /\ <<r1.order, r2.order>> \in {<<2, 0>>, <<0, 2>>, <<1, 1>>}
            /\ r1.order + r2.order = 2
            /\ lastSubmit.choice = "equal" <=> (r1.order = 1 /\ r2.order = 1)
            /\ lastSubmit.choice = "first" => r1.order = 2

\* "Both equal" was submitted and both rows are in the ledger, each with 0.5.
C9_Witness ==
    /\ lastSubmit.choice = "equal"
    /\ Len(lastSubmit.tables) = 3
    /\ Len(ledger) >= 2
    /\ ledger[Len(ledger)] = lastSubmit.rows[2]
    /\ ledger[Len(ledger) - 1] = lastSubmit.rows[1]
    /\ ledger[Len(ledger)].order = 1

\* C10: the ledger is append-only: whatever the read inside a save returns
\* (the rows, nothing because the object is missing, or any other error),
\* every row stored before the save is still stored, unchanged, after it.
C10_LedgerAppendOnly ==
    \A k \in 1..(Len(lastSubmit.tables) - 1) :
        LET before == lastSubmit.tables[k]
            after  == lastSubmit.tables[k + 1]
        IN  \A i \in 1..Len(before) : Count(after, before[i]) >= Count(before, before[i])

\* C11: an append never fails and never replaces a row because a row of the
\* same (rater, item, label) is already stored: the uploaded table holds every
\* row the call read, as often as it read it, and the call's row once more;
\* a judgment submitted twice is stored twice.
C11_NoUpsertNoDedup ==
    lastStore.writer # "none" =>
        /\ Len(lastStore.table) = Len(lastStore.loaded) + 1
        /\ \A x \in LedgerRows :
              Count(lastStore.table, x) =
                 Count(lastStore.loaded, x) + (IF x = lastStore.row THEN 1 ELSE 0)
        /\ Cardinality(RowsOf(lastStore.table, lastStore.row.video, lastStore.row.rater_id))
              = Cardinality(RowsOf(lastStore.loaded, lastStore.row.video,
                                   lastStore.row.rater_id)) + 1

\* The same row was saved twice and the ledger holds it twice.
C11_Witness ==
    /\ lastStore.writer # "none"
    /\ Count(lastStore.loaded, lastStore.row) = 1
    /\ Count(ledger, lastStore.row) = 2

\* C12: the upload that happens last overwrites the object (last writer
\* wins): the ledger is the table of the latest upload, whatever was uploaded
\* between that call's read and its upload; an interleaving is reachable after
\* which a row whose call returned without error is not in the ledger.
C12_LastWriterWins ==
    lastStore.writer # "none" =>
        /\ ledger = lastStore.table
        /\ \A i \in 1..Len(acked) :
              Count(ledger, acked[i].row) = 0 =>
                 Count(lastStore.loaded, acked[i].row) = 0

\* Every read succeeded, and a row whose call returned without error is not
\* in the ledger.
C12_Witness ==
    /\ \A i \in 1..Len(acked) : acked[i].readOk
    /\ \E i \in 1..Len(acked) : Count(ledger, acked[i].row) = 0
    /\ \A w \in Writers : writer[w].pc = "idle"

\* C13: when no ledger object exists, load_scores_from_gcs does not raise: it
\* returns a table of zero rows with the fixed 13 columns, and the append
\* that follows yields a ledger of exactly one row.
C13_FirstRunEmptyTable ==
    /\ Len(LedgerColumns) = 13
    /\ \A w \in Writers :
          (writer[w].pc = "loaded" /\ ~writer[w].existed) =>
              /\ writer[w].loaded = <<>>
              /\ writer[w].columns = LedgerColumns
    /\ (lastStore.writer # "none" /\ ~lastStore.existed) =>
          /\ lastStore.loaded = <<>>
          /\ lastStore.loaded_columns = LedgerColumns
          /\ lastStore.table = <<lastStore.row>>
          /\ lastStore.columns = LedgerColumns
          /\ ledger = lastStore.table
          /\ ledger_columns = LedgerColumns

\* The first save ever has been made on a store without a ledger object.
C13_Witness ==
    /\ lastStore.writer # "none"
    /\ ~lastStore.existed
    /\ lastStore.readOk
    /\ Len(acked) = 1
    /\ ledger = <<lastStore.row>>

-----------------------------------------------------------------------------
(* Claims on the rater sampler *)

Range(f) == {f[i] : i \in DOMAIN f}

\* C6: two calls of get_videos_from_gcs with the same rater id and the same
\* item pool return the same items in the same order, whatever the generator
\* was used for between them.
C6_SameRaterSamePoolSameSample ==
    (/\ lastCall.rater # 0
     /\ prevCall.rater = lastCall.rater
     /\ prevCall.pool = lastCall.pool)
        => prevCall.out = lastCall.out

\* Two calls for one rater on one full pool, entered with the generator in
\* different states, both returning a reordered sample.
C6_Witness ==
    /\ lastCall.rater # 0
    /\ prevCall.rater = lastCall.rater
    /\ prevCall.pool = lastCall.pool
    /\ Len(lastCall.pool) = PoolSize
    /\ prevCall.entry # lastCall.entry
    /\ lastCall.out # SubSeq(lastCall.pool, 1, Len(lastCall.out))

\* C7: two calls for the same rater on pools that hold the same items, listed
\* in whatever order, return the same sample in the same order.
C7_SameItemsAnyOrderSameSample ==
    (/\ lastCall.rater # 0
     /\ prevCall.rater = lastCall.rater
     /\ Range(prevCall.pool) = Range(lastCall.pool))
        => prevCall.out = lastCall.out

-----------------------------------------------------------------------------
(* Claims on the blind assignment *)

\* e maps the producers P one-to-one onto the two labels.
IsBijection(e, P) ==
    /\ DOMAIN e = P
    /\ {e[m] : m \in DOMAIN e} = Labels
    /\ \A m1, m2 \in DOMAIN e : e[m1] = e[m2] => m1 = m2

\* C4 as stated: after a generator has written the mapping, every item with
\* at least two producers has an entry that is a bijection between the item's
\* producers and the labels {red, yellow}.
C4_BijectionForAtLeastTwo ==
    lastRun \in {"generate", "visualize"} =>
        \A v \in BlindVideos :
            Cardinality(Producers(v)) >= 2 =>
                /\ v \in DOMAIN color_mapping
                /\ IsBijection(color_mapping[v], Producers(v))

\* C4 as amended: every emitted entry gives red and yellow to two distinct
\* producers of its item, one each; for an item with exactly two producers
\* that is a bijection between its producers and the labels; and
\* generate_color_mapping emits an entry for every item with at least two
\* producers.
C4_EntriesAreBijections ==
    /\ \A v \in DOMAIN color_mapping :
         /\ DOMAIN color_mapping[v] \subseteq Producers(v)
         /\ Cardinality(DOMAIN color_mapping[v]) = 2
         /\ {color_mapping[v][m] : m \in DOMAIN color_mapping[v]} = Labels
         /\ Cardinality(Producers(v)) = 2 => IsBijection(color_mapping[v], Producers(v))
    /\ lastRun = "generate" =>
         \A v \in BlindVideos : Cardinality(Producers(v)) >= 2 => v \in DOMAIN color_mapping

\* generate_color_mapping has labelled an item with exactly two producers and
\* an item with three.
C4_Witness ==
    /\ lastRun = "generate"
    /\ \E v, w \in DOMAIN color_mapping :
         /\ Cardinality(Producers(v)) = 2
         /\ Cardinality(Producers(w)) = 3

\* C22: after a generator has run, every item with fewer than two producers
\* has no mapping entry and is named in a warning of the run, and every other
\* item has its mapping.
C22_LoneProducerSkippedWithWarning ==
    lastRun \in {"generate", "visualize"} =>
        \A v \in BlindVideos :
            /\ Cardinality(Producers(v)) = 1 =>
                  /\ v \notin DOMAIN color_mapping
                  /\ v \in SkippedWarned(lastRun)
            /\ (lastRun = "generate" /\ Cardinality(Producers(v)) >= 2) =>
                  v \in DOMAIN color_mapping

\* C5: once an item's assignment is in the batch's color_mapping.json, no
\* later run of visualize_steps or generate_color_mapping on the batch
\* changes or removes it.
C5_AssignmentNeverChanges ==
    [][\A v \in DOMAIN color_mapping :
          /\ v \in DOMAIN color_mapping'
          /\ color_mapping'[v] = color_mapping[v]]_vars

-----------------------------------------------------------------------------
(* Claims on the batch dispatch *)

\* C1: in every batch dispatch a job's failure, at whichever step it happens,
\* is captured as that job's own failure result: no exception ever leaves a
\* job's closure, and the collection of the other jobs' results in main is
\* never aborted.
C1_FailureCapturedPerJob ==
    /\ \A j \in Jobs : jobPc[j] # "raised"
    /\ mainPc \notin {"unwinding", "crashed"}

\* C19: within one inference job the model call completes before the result
\* is written to the job's output slot; when a step fails after the model
\* call succeeded, what is already written to the slot is left in place,
\* neither overwritten nor removed, and the job is reported once, as failed.
C19_ComputeThenPersistArtifactKept ==
    [][\A j \in Jobs :
          script = "run_inference" =>
              /\ output'[j] # output[j] => jobPc[j] # "infer"
              /\ (jobPc[j] = "handler" /\ output[j] # "absent") => output'[j] = output[j]
              /\ (mainPc' = "summary" /\ jobPc'[j] = "failed") =>
                    Cardinality({i \in 1..Len(results') : results'[i][1] = j}) = 1]_vars

\* C20: a dispatch given zero jobs returns at once as a success with an empty
\* result set: no error is reported and the process does not end with a
\* failure status.
C20_ZeroJobsSucceed ==
    (tasks = 0 /\ mainPc # "start") => (mainPc = "returned" /\ results = <<>>)

\* C21: when the model's response cannot be parsed into the expected
\* structured shape, the job yields an error-tagged placeholder with an empty
\* segment list, the placeholder is what the job's slot holds, the job ends
\* with 0 segments, and every other job of the batch ends too.  (Judged on the
\* jobs that succeeded and on those whose response the count rejects, so that
\* a failed write of the slot is not held against the statement.)
Unshaped == {"not_json", "no_segments", "not_object"}

C23_TallyPrintedAndFailuresNotMasked ==
    (tasks > 0 /\ mainPc \in MainOver) =>
        /\ mainPc = "returned"
        /\ (\E j \in Jobs : jobPc[j] # "succeeded") => exit_status(mainPc) # 0

\* C2: when the dispatch has returned (main is past the with block), every
\* submitted job has ended and results holds exactly one entry per job, the
\* job's own outcome.
C2_AllJobsReported ==
    mainPc \in {"summary", "returned"} =>
        /\ \A j \in Jobs : jobPc[j] \in {"succeeded", "failed"}
        /\ Len(results) = tasks
        /\ \A j \in Jobs :
              /\ Cardinality({i \in 1..Len(results) : results[i][1] = j}) = 1
              /\ \E i \in 1..Len(results) : results[i] = <<j, jobPc[j]>>

\* A batch of three jobs has returned with a failed job among succeeded ones.
C2_Witness ==
    /\ mainPc = "returned"
    /\ tasks >= 2
    /\ \E j \in Jobs : jobPc[j] = "failed"
    /\ \E j \in Jobs : jobPc[j] = "succeeded"

\* C3: at every instant at most max_workers jobs are running (20 for
\* run_inference, 4 for the rendering scripts), however many were submitted.
C3_AtMostWRunning == running <= max_workers(script)

\* All 20 inference workers are busy while a further job waits in the queue.
C3_Witness ==
    /\ script = "run_inference"
    /\ running = max_workers(script)
    /\ queued > 0

====
